---- MODULE Spec2Model ----
(***************************************************************************)
(* A model of python/actor.py: the actor supervisor (__main__), the launch *)
(* of one worker process (launch_actor), the construction of its Actor and *)
(* the Actor's episode loop (loop, play_episode, _compute_v).              *)
(*                                                                         *)
(* The supervisor starts every worker as a multiprocessing.Process, so the *)
(* workers share no memory.  Spec follows the supervisor's startup and the *)
(* process of one worker, actor_idx, step by step; the blocking points of  *)
(* play_episode (parameter pull, search, labeling query, report push) are  *)
(* the steps.                                                              *)
(*                                                                         *)
(* Numbers.  _compute_v works on reals (Python floats).  With decay rate   *)
(* p/q and decay scale d the value v = R * (p/q)^(n/d) is irrational in    *)
(* general; the model carries v exactly as the rational v^|d|, which       *)
(* orders values as the reals do, since x |-> x^|d| is strictly increasing *)
(* on the positive reals.  Floating-point rounding is not modelled.        *)
(***************************************************************************)
EXTENDS Integers, Sequences, FiniteSets, TLC

\* ------------------------------------------------------------------ bounds

\* Longest trail the search returns (a trail never repeats a variable, so it
\* is also bounded by the instance's variable count).
MaxTrail == 2
\* Number of times the server's parameters change during a run.
MaxVersion == 1
\* SpecFn: largest n_steps_left _compute_v is called with.
MaxSteps == 3
\* SpecFn: most roles in actor_cfg['actors'], largest count of one role and
\* largest worker index get_actor_info is called with.
MaxRoles == 3
MaxRoleCount == 5
MaxIdx == 11
\* SpecFn: largest accelerator count "n_gpus", and longest trail MinTrail is
\* applied to.
MaxGpus == 4
MaxFnTrail == 3
\* SpecFleet: largest total actor count, and most episodes one worker plays.
MaxFleet == 2
MaxEpisodes == 2

\* ------------------------------------------------------------------ state

VARIABLES
    actor_cfg,       \* the JSON actor configuration (json.load, line 92)
    server_cfg,      \* what server.get_config() returns
    server_weights,  \* what server.get_weights() returns now (a version)
    main_pc,         \* position of the supervisor (__main__)
    n_actors_total,  \* line 111
    gpu_frac,        \* line 112, a rational <<num, den>>
    actor_idx,       \* the index launch_actor is called with
    pc,              \* position of the worker process
    error,           \* the exception that ended the worker or the supervisor
    actor,           \* the Actor object's fields (self.*)
    pos,             \* the loop's position: indices into sps, branchers, cubers
    ep,              \* the locals and the calls of the episode being played
                     \* (kept until the next call of play_episode)
    call,            \* SpecFn: a function of the program and its arguments
    ret,             \* SpecFn: what the function returned
    workers,         \* SpecFleet: the worker processes, by index
    procs,           \* SpecFleet: the list `actors` of line 130, as indices
    n_joined,        \* SpecFleet: how many joins of line 139 have returned
    server_log       \* SpecFleet: the reports the server has received

\* The variables of SpecFleet, which Spec and SpecFn leave alone.
fleet == <<workers, procs, n_joined, server_log>>

vars == <<actor_cfg, server_cfg, server_weights, main_pc, n_actors_total,
          gpu_frac, actor_idx, pc, error, actor, pos, ep, call, ret, fleet>>

\* The variables of SpecFn, which Spec leaves alone.
fn == <<call, ret>>

\* ------------------------------------------------------------------ data

\* Problem instances as parse_dimacs returns them, per corpus directory,
\* in the order os.walk lists them.
Corpus(dir) ==
    IF dir = "train_dir"
    THEN << [dimacs |-> "a.cnf", n_vars |-> 3, n_clauses |-> 2],
            [dimacs |-> "b.cnf", n_vars |-> 1, n_clauses |-> 1] >>
    ELSE << [dimacs |-> "c.cnf", n_vars |-> 2, n_clauses |-> 2] >>

\* The role descriptors of actor_cfg['actors'] without their counts.
RoleTemplates ==
    << [train |-> TRUE,  dimacs_dir |-> "train_dir",
        cubers |-> <<"cuber0", "cuber1">>, branchers |-> <<"brancher0", "brancher1">>],
       [train |-> FALSE, dimacs_dir |-> "test_dir",
        cubers |-> <<"cuber0">>, branchers |-> <<"brancher0", "brancher1">>] >>

MkRole(k, n) ==
    [n |-> n, train |-> RoleTemplates[k].train,
     dimacs_dir |-> RoleTemplates[k].dimacs_dir,
     cubers |-> RoleTemplates[k].cubers, branchers |-> RoleTemplates[k].branchers]

\* The actor configurations the runs start from: the counts of the two roles
\* (no actor at all, one of each, only the second role), two accelerators and
\* the global fraction 1/2.
CountLists == { <<0, 0>>, <<1, 1>>, <<0, 1>> }
ActorConfigs ==
    { [actors |-> <<MkRole(1, n[1]), MkRole(2, n[2])>>, n_gpus |-> 2, gpu_frac |-> <<1, 2>>] :
        n \in CountLists }

\* The reward-shaping constants a server may hand out: v_reward_decay is the
\* rational <<p, q>>.
DecayRates == { <<1, 2>>, <<1, 1>>, <<3, 2>> }
DecayScales == { -1, 0, 1, 2 }
ServerConfigs ==
    { c \in [v_reward : {2}, v_reward_decay : DecayRates,
             v_reward_decay_steps : DecayScales, dropout_training : {TRUE}] :
        c.v_reward_decay_steps > 0 \/ c.v_reward_decay = <<1, 2>> }

Estimates == { 0, 1 }

\* ------------------------------------------------------------------ helpers

Range(s) == { s[k] : k \in DOMAIN s }

Min(a, b) == IF a < b THEN a ELSE b

RECURSIVE Pow(_, _)
Pow(b, e) == IF e = 0 THEN 1 ELSE b * Pow(b, e - 1)

Abs(x) == IF x < 0 THEN -x ELSE x

RECURSIVE SumN(_)
\* sum([actor['n'] for actor in actors])
SumN(actors) ==
    IF actors = <<>> THEN 0 ELSE Head(actors).n + SumN(Tail(actors))

\* Literals of an instance with n variables, and a literal's var().idx().
Lits(n) == { l \in (-n)..n : l # 0 }
VarIdx(lit) == Abs(lit)

\* Trails: sequences of literals over distinct variables.
Trails(sp) ==
    UNION { { t \in [1..len -> Lits(sp.n_vars)] :
                \A a, b \in 1..len : a # b => VarIdx(t[a]) # VarIdx(t[b]) } :
            len \in 0..Min(MaxTrail, sp.n_vars) }

NoneResult == [present |-> FALSE, trail |-> <<>>, core |-> {}, estimate |-> 0]

\* What play_asat may return for an instance: None, or (trail, core, estimate)
\* with the core a subset of the trail's literals.
SearchOutcomes(sp) ==
    { NoneResult } \cup
    UNION { { [present |-> TRUE, trail |-> t, core |-> c, estimate |-> e] :
                c \in SUBSET Range(t), e \in Estimates } :
            t \in Trails(sp) }

\* What to_tf_query may report as free variables under the assumptions: any
\* set of variables the assumptions do not assign (propagation may assign
\* more of them, down to none).
FreeVarSets(sp, assumptions) ==
    SUBSET ((1..sp.n_vars) \ { VarIdx(l) : l \in Range(assumptions) })

\* ------------------------------------------------------------------ __main__

\* Mutant of Walk: the comparison of line 118 is <= instead of <.
RECURSIVE WalkOffByOne(_, _, _, _)
WalkOffByOne(actors, idx, k, i) ==
    IF k > Len(actors) THEN 0
    ELSE LET i2 == i + actors[k].n
         IN  IF idx <= i2 THEN k ELSE WalkOffByOne(actors, idx, k + 1, i2)

\* Mutant of Walk: the counts are not accumulated (i = n instead of i += n).
RECURSIVE WalkNoSum(_, _, _, _)
WalkNoSum(actors, idx, k, i) ==
    IF k > Len(actors) THEN 0
    ELSE LET i2 == actors[k].n
         IN  IF idx < i2 THEN k ELSE WalkNoSum(actors, idx, k + 1, i2)

\* lines 114-120: walk the roles in declared order accumulating counts;
\* the result is the position of the role returned, 0 for the raise.
RECURSIVE Walk(_, _, _, _)
Walk(actors, idx, k, i) ==
    IF k > Len(actors) THEN 0
    ELSE LET i2 == i + actors[k].n
         IN  IF idx < i2 THEN k ELSE Walk(actors, idx, k + 1, i2)

get_actor_info(actors, idx) == Walk(actors, idx, 1, 0)

\* Mutant of GpuId: the index is not reduced modulo the accelerator count.
GpuIdNoMod(cfg, idx) == IF cfg.n_gpus > 0 THEN idx ELSE 0

\* line 124
GpuId(cfg, idx) == IF cfg.n_gpus > 0 THEN idx % cfg.n_gpus ELSE 0

\* Mutant of GpuFrac: the accelerator count is left out of the share.
GpuFracNoGpus(cfg, total) == << cfg.gpu_frac[1], cfg.gpu_frac[2] * total >>

\* line 112 for total # 0: gpu_frac * n_gpus / n_actors_total as a rational
GpuFrac(cfg, total) == << cfg.gpu_frac[1] * cfg.n_gpus, cfg.gpu_frac[2] * total >>

\* Mutant of WorkerIndices: the range starts at 1.
WorkerIndicesFromOne(total) == 1..total

\* line 132: range(n_actors_total)
WorkerIndices(total) == 0..(total - 1)

\* lines 111-112
MainStart ==
    /\ main_pc = "start"
    /\ LET total == SumN(actor_cfg.actors)
       IN  /\ n_actors_total' = total
           /\ IF total = 0
              THEN /\ main_pc' = "crashed"
                   /\ error' = "ZeroDivisionError"
                   /\ UNCHANGED gpu_frac
              ELSE /\ main_pc' = "launching"
                   /\ gpu_frac' = GpuFrac(actor_cfg, total)
                   /\ UNCHANGED error
    /\ UNCHANGED <<fleet, actor_cfg, server_cfg, server_weights, actor_idx, pc, actor, pos, ep, call, ret>>

\* lines 132-135: the supervisor starts the worker process for actor_idx.
StartWorker ==
    /\ main_pc = "launching"
    /\ pc = "unstarted"
    /\ \E idx \in WorkerIndices(n_actors_total) : actor_idx' = idx
    /\ pc' = "launch_actor"
    /\ UNCHANGED <<fleet, actor_cfg, server_cfg, server_weights, main_pc, n_actors_total,
                   gpu_frac, error, actor, pos, ep, call, ret>>

\* ------------------------------------------------------------------ Actor

NoEpisode ==
    [triple |-> [s |-> 0, b |-> 0, c |-> 0], log |-> <<>>, old_weights |-> -1, pulled |-> -1,
     search_weights |-> -1, result |-> NoneResult, min_trail |-> <<>>, i |-> 0,
     queries |-> <<>>, datapoints |-> <<>>, reports |-> <<>>, returned |-> FALSE]

\* An entry of the episode's log: a call, the object it is made on, and an
\* argument or result that identifies it.
Call(on, name, arg) == [on |-> on, call |-> name, arg |-> arg]

\* lines 16-34, Actor.__init__
NewActor(server_config, gid, frac, actor_info) ==
    [server     |-> "server",
     cfg        |-> [server_config EXCEPT !.dropout_training = FALSE],
     gpu_id     |-> gid,
     gpu_frac   |-> frac,
     weights    |-> -1,
     cubers     |-> actor_info.cubers,
     branchers  |-> actor_info.branchers,
     sps        |-> Corpus(actor_info.dimacs_dir),
     train      |-> actor_info.train]

HasTriple(a) == a.sps # <<>> /\ a.branchers # <<>> /\ a.cubers # <<>>

FirstPos == [s |-> 1, b |-> 1, c |-> 1]

\* Mutant of NextPos: the loops over branchers and cubers are swapped.
NextPosCubersOuter(a, p) ==
    IF p.b < Len(a.branchers) THEN [p EXCEPT !.b = p.b + 1]
    ELSE IF p.c < Len(a.cubers) THEN [p EXCEPT !.c = p.c + 1, !.b = 1]
    ELSE IF p.s < Len(a.sps) THEN [s |-> p.s + 1, b |-> 1, c |-> 1]
    ELSE [s |-> 1, b |-> 1, c |-> 1]

\* lines 37-41: the triple after p in the nested for loops under while True.
NextPos(a, p) ==
    IF p.c < Len(a.cubers) THEN [p EXCEPT !.c = p.c + 1]
    ELSE IF p.b < Len(a.branchers) THEN [p EXCEPT !.b = p.b + 1, !.c = 1]
    ELSE IF p.s < Len(a.sps) THEN [s |-> p.s + 1, b |-> 1, c |-> 1]
    ELSE FirstPos

\* lines 122-126: launch_actor up to the call of actor.loop()
LaunchActor ==
    /\ pc = "launch_actor"
    /\ LET k == get_actor_info(actor_cfg.actors, actor_idx)
       IN  IF k = 0
           THEN /\ pc' = "crashed"
                /\ error' = "Exception"
                /\ UNCHANGED <<actor, pos>>
           ELSE LET a == NewActor(server_cfg, GpuId(actor_cfg, actor_idx), gpu_frac,
                                  actor_cfg.actors[k])
                IN  /\ actor' = a
                    /\ pc' = IF HasTriple(a) THEN "get_weights" ELSE "spin"
                    /\ pos' = FirstPos
                    /\ UNCHANGED error
    /\ UNCHANGED <<fleet, actor_cfg, server_cfg, server_weights, main_pc, n_actors_total,
                   gpu_frac, actor_idx, ep, call, ret>>

\* Mutant of _compute_v: line 80 divides as integers (n_steps_left // steps).
_compute_v_floor(cfg, n_steps_left) ==
    LET d == cfg.v_reward_decay_steps
        k == Abs(d)
        p == cfg.v_reward_decay[1]
        q == cfg.v_reward_decay[2]
        m == (n_steps_left \div d) * k
    IN  IF m >= 0
        THEN [root |-> k, num |-> Pow(cfg.v_reward, k) * Pow(p, m), den |-> Pow(q, m)]
        ELSE [root |-> k, num |-> Pow(cfg.v_reward, k) * Pow(q, -m), den |-> Pow(p, -m)]

\* lines 79-81, exact: the result is v^|d| as the rational num/den, where
\* v = v_reward * v_reward_decay ^ (n_steps_left / v_reward_decay_steps) and
\* d = v_reward_decay_steps # 0.
_compute_v(cfg, n_steps_left) ==
    LET d == cfg.v_reward_decay_steps
        k == Abs(d)
        p == cfg.v_reward_decay[1]
        q == cfg.v_reward_decay[2]
        m == IF d > 0 THEN n_steps_left ELSE -n_steps_left
    IN  IF m >= 0
        THEN [root |-> k, num |-> Pow(cfg.v_reward, k) * Pow(p, m), den |-> Pow(q, m)]
        ELSE [root |-> k, num |-> Pow(cfg.v_reward, k) * Pow(q, -m), den |-> Pow(p, -m)]

\* line 80 raises ZeroDivisionError when v_reward_decay_steps is 0
ComputeVRaises(cfg) == cfg.v_reward_decay_steps = 0

\* Order and equality of two values of the same root.
VLess(x, y) == x.num * y.den < y.num * x.den
VEq(x, y) == x.num * y.den = y.num * x.den

\* Mutant of SetWeights: the pulled parameters are not loaded.
SetWeightsSkipped(a, w) == a

\* line 44, self.neuroquery.set_weights(w): the Actor after it
SetWeights(a, w) == [a EXCEPT !.weights = w]

\* line 44: self.neuroquery.set_weights(self.server.get_weights())
PullWeights ==
    /\ pc = "get_weights"
    /\ LET w == server_weights
       IN  /\ ep' = [NoEpisode EXCEPT
                       !.triple = pos,
                       !.old_weights = actor.weights,
                       !.pulled = w,
                       !.log = << Call(actor.server, "get_weights", w),
                                  Call("neuroquery", "set_weights", w) >>]
           /\ actor' = SetWeights(actor, w)
    /\ pc' = "play_asat"
    /\ UNCHANGED <<fleet, actor_cfg, server_cfg, server_weights, main_pc, n_actors_total,
                   gpu_frac, actor_idx, error, pos, call, ret>>

\* Mutant of AfterSearch: the check for None is missing.
AfterSearchNoNoneCheck(a, r) ==
    IF a.train THEN "generate" ELSE "report"

\* lines 46 and 51: what play_episode does with the search's result
AfterSearch(a, r) ==
    IF ~r.present THEN "return"
    ELSE IF a.train THEN "generate"
    ELSE "report"

\* Mutant of MinTrail: the core's literals in reverse trail order.
RECURSIVE Reversed(_)
Reversed(q) == IF q = <<>> THEN <<>> ELSE Append(Reversed(Tail(q)), Head(q))
MinTrailReversed(trail, core) == Reversed(SelectSeq(trail, LAMBDA lit : lit \in core))

\* line 52
MinTrail(trail, core) == SelectSeq(trail, LAMBDA lit : lit \in core)

\* line 45: the solver self._fresh_solver(sp) builds for the search, the
\* first of the episode
SearchSolver == "solver1"

\* Mutant of LabelSolver: the labeling queries go to the search's solver.
LabelSolverOfSearch(i) == "solver1"

\* lines 53 and 55: the solver the labeling query of index i is made on: s,
\* the second solver of the episode, built once before the loop
LabelSolver(i) == "solver2"

\* lines 45-53: the search, the return on None, and the start of sample generation
PlayAsat ==
    /\ pc = "play_asat"
    /\ \E r \in SearchOutcomes(actor.sps[pos.s]) :
         LET log1 == ep.log \o << Call(SearchSolver, "_fresh_solver", 0),
                                  Call(SearchSolver, "play_asat", actor.weights) >>
             e1   == [ep EXCEPT !.result = r, !.search_weights = actor.weights, !.log = log1]
             step == AfterSearch(actor, r)
         IN  IF step = "return"
             THEN /\ ep' = [e1 EXCEPT !.returned = TRUE]
                  /\ pos' = NextPos(actor, pos)
                  /\ pc' = "get_weights"
             ELSE IF step = "generate"
             THEN LET mt == MinTrail(r.trail, r.core)
                  IN  /\ ep' = [e1 EXCEPT !.min_trail = mt,
                                          !.log = Append(log1, Call(LabelSolver(0), "_fresh_solver", 0))]
                      /\ pc' = IF Len(mt) > 0 THEN "to_tf_query" ELSE "process_actor_episode"
                      /\ UNCHANGED pos
             ELSE /\ ep' = e1
                  /\ pc' = "process_actor_episode"
                  /\ UNCHANGED pos
    /\ UNCHANGED <<fleet, actor_cfg, server_cfg, server_weights, main_pc, n_actors_total,
                   gpu_frac, actor_idx, error, actor, call, ret>>

\* Mutant of StopsGeneration: the loop never breaks.
StopsGenerationNever(fvars) == FALSE

\* line 56: if len(tfq.fvars) == 0: break
StopsGeneration(fvars) == Cardinality(fvars) = 0

\* Mutant of StepsLeft: the steps done, not the steps left.
StepsLeftFromStart(min_trail, i) == i + 1

\* line 58: n_steps_left=len(min_trail) - i
StepsLeft(min_trail, i) == Len(min_trail) - i

\* Mutant of Datapoint: the target is the literal, not its variable's index.
DatapointLiteral(cfg, sp, min_trail, i) ==
    [n_vars     |-> sp.n_vars,
     n_clauses  |-> sp.n_clauses,
     LC_idxs    |-> SubSeq(min_trail, 1, i),
     target_var |-> min_trail[i + 1],
     target_v   |-> _compute_v(cfg, Len(min_trail) - i)]

\* lines 57-63: the datapoint of index i (0-based); the query's LC_idxs are
\* carried as the assumptions the query was made under.
Datapoint(cfg, sp, min_trail, i) ==
    [n_vars     |-> sp.n_vars,
     n_clauses  |-> sp.n_clauses,
     LC_idxs    |-> SubSeq(min_trail, 1, i),
     target_var |-> VarIdx(min_trail[i + 1]),
     target_v   |-> _compute_v(cfg, StepsLeft(min_trail, i))]

\* lines 54-63: one iteration of the sample-generation loop
LabelQuery ==
    /\ pc = "to_tf_query"
    /\ LET sp          == actor.sps[ep.triple.s]
           i           == ep.i
           assumptions == SubSeq(ep.min_trail, 1, i)
           log1        == Append(ep.log, Call(LabelSolver(i), "to_tf_query", i))
       IN  \E fvars \in FreeVarSets(sp, assumptions) :
             LET e1 == [ep EXCEPT !.log = log1,
                                  !.queries = Append(ep.queries, fvars = {})]
             IN  IF StopsGeneration(fvars)
                 THEN \* break
                      /\ ep' = e1
                      /\ pc' = "process_actor_episode"
                      /\ UNCHANGED error
                 ELSE IF ComputeVRaises(actor.cfg)
                 THEN /\ ep' = e1
                      /\ pc' = "crashed"
                      /\ error' = "ZeroDivisionError"
                 ELSE /\ ep' = [e1 EXCEPT
                                  !.datapoints = Append(ep.datapoints,
                                      Datapoint(actor.cfg, sp, ep.min_trail, i)),
                                  !.i = i + 1]
                      /\ pc' = IF i + 1 < Len(ep.min_trail)
                               THEN "to_tf_query" ELSE "process_actor_episode"
                      /\ UNCHANGED error
    /\ UNCHANGED <<fleet, actor_cfg, server_cfg, server_weights, main_pc, n_actors_total,
                   gpu_frac, actor_idx, actor, pos, call, ret>>

\* Mutant of EpisodeResult: the names of the cuber and the brancher are swapped.
EpisodeResultSwapped(a, e) ==
    [dimacs     |-> a.sps[e.triple.s].dimacs,
     cuber      |-> a.branchers[e.triple.b],
     brancher   |-> a.cubers[e.triple.c],
     estimate   |-> e.result.estimate,
     datapoints |-> e.datapoints]

\* lines 66-73: the ActorEpisodeResult of the episode e
EpisodeResult(a, e) ==
    [dimacs     |-> a.sps[e.triple.s].dimacs,
     cuber      |-> a.cubers[e.triple.c],
     brancher   |-> a.branchers[e.triple.b],
     estimate   |-> e.result.estimate,
     datapoints |-> e.datapoints]

\* Mutant of Pushed: the report is sent twice.
PushedTwice(a, e, report) ==
    [e EXCEPT !.log = e.log \o << Call(a.server, "process_actor_episode", 0),
                                  Call(a.server, "process_actor_episode", 0) >>,
              !.reports = e.reports \o <<report, report>>]

\* line 65: the episode after self.server.process_actor_episode(report)
Pushed(a, e, report) ==
    [e EXCEPT !.log = Append(e.log, Call(a.server, "process_actor_episode", 0)),
              !.reports = Append(e.reports, report)]

\* lines 65-74: the report sent to the server, then the return to the loop,
\* which goes on to the next triple
ProcessActorEpisode ==
    /\ pc = "process_actor_episode"
    /\ ep' = [Pushed(actor, ep, EpisodeResult(actor, ep)) EXCEPT !.returned = TRUE]
    /\ pos' = NextPos(actor, pos)
    /\ pc' = "get_weights"
    /\ UNCHANGED <<fleet, actor_cfg, server_cfg, server_weights, main_pc, n_actors_total,
                   gpu_frac, actor_idx, error, actor, call, ret>>

\* The server's parameters change (training goes on at the server).
ServerUpdate ==
    /\ server_weights < MaxVersion
    /\ server_weights' = server_weights + 1
    /\ UNCHANGED <<fleet, actor_cfg, server_cfg, main_pc, n_actors_total, gpu_frac,
                   actor_idx, pc, error, actor, pos, ep, call, ret>>

\* ------------------------------------------------------------------ Spec

NoActor ==
    [server |-> "", cfg |-> [v_reward |-> 0, v_reward_decay |-> <<1, 1>>,
                             v_reward_decay_steps |-> 0, dropout_training |-> FALSE],
     gpu_id |-> 0, gpu_frac |-> <<0, 1>>, weights |-> -1,
     cubers |-> <<>>, branchers |-> <<>>, sps |-> <<>>, train |-> FALSE]

\* SpecFn's variables when no function is being called.
NoCall ==
    [fn |-> "none", cfg |-> NoActor.cfg, n1 |-> 0, n2 |-> 0, counts |-> <<>>, idx |-> 0,
     n_gpus |-> 0, gpu_frac |-> <<0, 1>>, trail |-> <<>>, core |-> {}]
NoRet ==
    [done |-> FALSE, raised |-> "none", v1 |-> <<>>, v2 |-> <<>>, role |-> 0,
     n_actors_total |-> 0, workers |-> <<>>, min_trail |-> <<>>]

Init ==
    /\ actor_cfg \in ActorConfigs
    /\ server_cfg \in ServerConfigs
    /\ server_weights = 0
    /\ main_pc = "start"
    /\ n_actors_total = 0
    /\ gpu_frac = <<0, 1>>
    /\ actor_idx = 0
    /\ pc = "unstarted"
    /\ error = "none"
    /\ actor = NoActor
    /\ pos = FirstPos
    /\ ep = NoEpisode
    /\ call = NoCall
    /\ ret = NoRet
    /\ workers = <<>>
    /\ procs = <<>>
    /\ n_joined = 0
    /\ server_log = <<>>

Next ==
    \/ MainStart
    \/ StartWorker
    \/ LaunchActor
    \/ PullWeights
    \/ PlayAsat
    \/ LabelQuery
    \/ ProcessActorEpisode
    \/ ServerUpdate

Spec == Init /\ [][Next]_vars

\* ------------------------------------------------------------------ SpecFail
\* The tracked worker when remote calls may fail: a call of the server proxy
\* raises, and nothing in actor.py catches it.

\* Mutant of AfterRemoteFailure: the exception is swallowed and the worker
\* stays where it was, so that the call is made again.
AfterRemoteFailureRetry(p) == p

\* lines 18, 44, 65 with lines 36-41 and 126: the exception of a remote call
\* leaves play_episode, loop and launch_actor, and the worker process ends
AfterRemoteFailure(p) == "crashed"

\* line 18: server.get_config() raises in Actor.__init__
GetConfigFails ==
    /\ pc = "launch_actor"
    /\ get_actor_info(actor_cfg.actors, actor_idx) # 0
    /\ ep' = [ep EXCEPT !.log = << Call("server", "get_config", -1) >>]
    /\ pc' = AfterRemoteFailure(pc)
    /\ error' = "RemoteError"
    /\ UNCHANGED <<fleet, actor_cfg, server_cfg, server_weights, main_pc, n_actors_total,
                   gpu_frac, actor_idx, actor, pos, call, ret>>

\* line 44: server.get_weights() raises, before set_weights gets anything
GetWeightsFails ==
    /\ pc = "get_weights"
    /\ ep' = [NoEpisode EXCEPT
                !.triple = pos,
                !.old_weights = actor.weights,
                !.log = << Call(actor.server, "get_weights", -1) >>]
    /\ pc' = AfterRemoteFailure(pc)
    /\ error' = "RemoteError"
    /\ UNCHANGED <<fleet, actor_cfg, server_cfg, server_weights, main_pc, n_actors_total,
                   gpu_frac, actor_idx, actor, pos, call, ret>>

\* line 65: server.process_actor_episode(...) raises; the report was lost on
\* the way or it reached the server and the answer was lost
PushFails ==
    /\ pc = "process_actor_episode"
    /\ \E delivered \in BOOLEAN :
          ep' = IF delivered
                THEN Pushed(actor, ep, EpisodeResult(actor, ep))
                ELSE [ep EXCEPT !.log = Append(ep.log, Call(actor.server, "process_actor_episode", 0))]
    /\ pc' = AfterRemoteFailure(pc)
    /\ error' = "RemoteError"
    /\ UNCHANGED <<fleet, actor_cfg, server_cfg, server_weights, main_pc, n_actors_total,
                   gpu_frac, actor_idx, actor, pos, call, ret>>

NextFail ==
    \/ Next
    \/ GetConfigFails
    \/ GetWeightsFails
    \/ PushFails

SpecFail == Init /\ [][NextFail]_vars

\* ------------------------------------------------------------------ SpecFleet
\* The supervisor and all its worker processes, each worker at the grain of
\* its remote calls: the pull, the search with sample generation, the push.

\* The slots for worker processes (one more than the largest fleet).
WorkerSlots == 0..MaxFleet

NoWorker ==
    [pc |-> "unstarted", error |-> "none", actor |-> NoActor, pos |-> FirstPos,
     n |-> 0, flight |-> "none", ended |-> FALSE]

\* Role counts that give up to MaxFleet actors.
FleetConfigs ==
    { [actors |-> <<MkRole(1, n[1]), MkRole(2, n[2])>>,
       n_gpus |-> 2, gpu_frac |-> <<1, 2>>] :
        n \in { c \in (0..MaxFleet) \X (0..MaxFleet) : c[1] + c[2] <= MaxFleet } }

FleetServerConfigs ==
    { c \in ServerConfigs : c.v_reward_decay = <<1, 2>> /\ c.v_reward_decay_steps \in {0, 1} }

Terminated(w) == workers[w].pc \in {"crashed", "killed"}

\* lines 132-135: the next index of range(n_actors_total) gets its process,
\* which is started and appended to the list
FleetStart ==
    /\ main_pc = "launching"
    /\ \E idx \in WorkerIndices(n_actors_total) \ Range(procs) :
          /\ \A j \in WorkerIndices(n_actors_total) \ Range(procs) : idx <= j
          /\ actor_idx' = idx
          /\ workers' = [workers EXCEPT ![idx].pc = "launch_actor"]
          /\ procs' = Append(procs, idx)
    /\ UNCHANGED <<actor_cfg, server_cfg, server_weights, main_pc, n_actors_total,
                   gpu_frac, pc, error, actor, pos, ep, call, ret, n_joined, server_log>>

\* line 137: the launch loop is over
FleetAllLaunched ==
    /\ main_pc = "launching"
    /\ WorkerIndices(n_actors_total) \ Range(procs) = {}
    /\ main_pc' = "joining"
    /\ UNCHANGED <<actor_cfg, server_cfg, server_weights, n_actors_total,
                   gpu_frac, actor_idx, pc, error, actor, pos, ep, call, ret, fleet>>

\* lines 138-139: actor.join() returns for the next process of the list,
\* once that process has ended
FleetJoin ==
    /\ main_pc = "joining"
    /\ n_joined < Len(procs)
    /\ Terminated(procs[n_joined + 1])
    /\ n_joined' = n_joined + 1
    /\ UNCHANGED <<actor_cfg, server_cfg, server_weights, main_pc, n_actors_total,
                   gpu_frac, actor_idx, pc, error, actor, pos, ep, call, ret,
                   workers, procs, server_log>>

\* line 139, after the last join: the supervisor ends
FleetDone ==
    /\ main_pc = "joining"
    /\ n_joined = Len(procs)
    /\ main_pc' = "done"
    /\ UNCHANGED <<actor_cfg, server_cfg, server_weights, n_actors_total,
                   gpu_frac, actor_idx, pc, error, actor, pos, ep, call, ret, fleet>>

\* What a step of worker w leaves alone.
FleetRest ==
    UNCHANGED <<actor_cfg, server_cfg, server_weights, main_pc, n_actors_total,
                gpu_frac, actor_idx, pc, error, actor, pos, ep, call, ret,
                procs, n_joined>>

\* lines 122-126: launch_actor in process w, up to the call of actor.loop()
FleetLaunchActor(w) ==
    /\ workers[w].pc = "launch_actor"
    /\ LET k == get_actor_info(actor_cfg.actors, w)
       IN  workers' =
             IF k = 0
             THEN [workers EXCEPT ![w].pc = "crashed", ![w].error = "Exception"]
             ELSE LET a == NewActor(server_cfg, GpuId(actor_cfg, w), gpu_frac,
                                    actor_cfg.actors[k])
                  IN  [workers EXCEPT ![w].actor = a,
                                      ![w].pc = IF HasTriple(a) THEN "get_weights" ELSE "spin"]
    /\ UNCHANGED server_log
    /\ FleetRest

\* line 44 in process w: the next call of play_episode starts with the pull
FleetPull(w) ==
    /\ workers[w].pc = "get_weights"
    /\ workers[w].n < MaxEpisodes
    /\ workers' = [workers EXCEPT ![w].actor = SetWeights(@, server_weights),
                                  ![w].n = @ + 1,
                                  ![w].ended = FALSE,
                                  ![w].pc = "play_asat"]
    /\ UNCHANGED server_log
    /\ FleetRest

\* lines 54-63: whether sample generation raises: with decay steps 0 the
\* first label does, unless the first query has no free variable
GenerationRaises(a, sp, min_trail) ==
    IF min_trail = <<>> THEN { FALSE }
    ELSE { ComputeVRaises(a.cfg) /\ ~StopsGeneration(fvars) : fvars \in FreeVarSets(sp, <<>>) }

\* lines 45-63 in process w: the search, the return on None, sample generation
FleetPlay(w) ==
    /\ workers[w].pc = "play_asat"
    /\ LET a  == workers[w].actor
           sp == a.sps[workers[w].pos.s]
       IN  \E r \in SearchOutcomes(sp) :
             \E raises \in IF AfterSearch(a, r) = "generate"
                           THEN GenerationRaises(a, sp, MinTrail(r.trail, r.core))
                           ELSE { FALSE } :
               workers' =
                 IF AfterSearch(a, r) = "return"
                 THEN [workers EXCEPT ![w].pc = "get_weights",
                                      ![w].pos = NextPos(a, @),
                                      ![w].ended = TRUE]
                 ELSE IF raises
                 THEN [workers EXCEPT ![w].pc = "crashed", ![w].error = "ZeroDivisionError"]
                 ELSE [workers EXCEPT ![w].pc = "process_actor_episode"]
    /\ UNCHANGED server_log
    /\ FleetRest

\* Mutant of AfterPushSent: the push is a one-way call, the worker goes on
\* without the server's answer.
AfterPushSentOneWay(p) == "get_weights"

\* line 65: process_actor_episode is a call of the server proxy that returns
\* when the server has answered; until then the worker waits in it
AfterPushSent(p) == "push_wait"

\* line 65 in process w: the report goes out
FleetPush(w) ==
    /\ workers[w].pc = "process_actor_episode"
    /\ workers' = [workers EXCEPT ![w].flight = "sent",
                                  ![w].pc = AfterPushSent(@)]
    /\ UNCHANGED server_log
    /\ FleetRest

\* The server takes the report of worker w.
FleetServerReceive(w) ==
    /\ workers[w].flight = "sent"
    /\ server_log' = Append(server_log,
                            [idx |-> w, n |-> workers[w].n, triple |-> workers[w].pos])
    /\ workers' = [workers EXCEPT ![w].flight = "received"]
    /\ FleetRest

\* lines 65-74 and 36-41 in process w: the push returns, play_episode
\* returns, and the loop goes on to the next triple
FleetPushReturn(w) ==
    /\ workers[w].pc = "push_wait"
    /\ workers[w].flight = "received"
    /\ workers' = [workers EXCEPT ![w].flight = "none",
                                  ![w].pos = NextPos(workers[w].actor, @),
                                  ![w].ended = TRUE,
                                  ![w].pc = "get_weights"]
    /\ UNCHANGED server_log
    /\ FleetRest

\* The worker process w is killed from outside.
FleetKill(w) ==
    /\ workers[w].pc \notin {"unstarted", "crashed", "killed"}
    /\ workers' = [workers EXCEPT ![w].pc = "killed"]
    /\ UNCHANGED server_log
    /\ FleetRest

InitFleet ==
    /\ actor_cfg \in FleetConfigs
    /\ server_cfg \in FleetServerConfigs
    /\ server_weights = 0
    /\ main_pc = "start"
    /\ n_actors_total = 0
    /\ gpu_frac = <<0, 1>>
    /\ actor_idx = 0
    /\ pc = "unstarted"
    /\ error = "none"
    /\ actor = NoActor
    /\ pos = FirstPos
    /\ ep = NoEpisode
    /\ call = NoCall
    /\ ret = NoRet
    /\ workers = [w \in WorkerSlots |-> NoWorker]
    /\ procs = <<>>
    /\ n_joined = 0
    /\ server_log = <<>>

NextFleet ==
    \/ MainStart
    \/ FleetStart
    \/ FleetAllLaunched
    \/ FleetJoin
    \/ FleetDone
    \/ ServerUpdate
    \/ \E w \in WorkerSlots : FleetLaunchActor(w)
    \/ \E w \in WorkerSlots : FleetPull(w)
    \/ \E w \in WorkerSlots : FleetPlay(w)
    \/ \E w \in WorkerSlots : FleetPush(w)
    \/ \E w \in WorkerSlots : FleetServerReceive(w)
    \/ \E w \in WorkerSlots : FleetPushReturn(w)
    \/ \E w \in WorkerSlots : FleetKill(w)

SpecFleet == InitFleet /\ [][NextFleet]_vars

\* ------------------------------------------------------------------ SpecFn

\* SpecFn calls one function of the program on arguments drawn from bounded
\* sets; the actor and the supervisor do not run.

\* Reward-shaping constants for _compute_v, inside and outside the range the
\* claims assume.
RewardConfigs ==
    [v_reward : {1, 2, 3},
     v_reward_decay : { <<1, 2>>, <<2, 3>>, <<1, 3>>, <<1, 1>>, <<3, 2>> },
     v_reward_decay_steps : { -1, 0, 1, 2, 3 },
     dropout_training : {FALSE}]

ComputeCalls ==
    { [NoCall EXCEPT !.fn = "_compute_v", !.cfg = c, !.n1 = a, !.n2 = b] :
        c \in RewardConfigs, a \in 0..MaxSteps, b \in 0..MaxSteps }

\* Lists of role counts, as actor_cfg['actors'] gives them.
CountSeqs == UNION { [1..len -> 0..MaxRoleCount] : len \in 0..MaxRoles }

InfoCalls ==
    { [NoCall EXCEPT !.fn = "get_actor_info", !.counts = cs, !.idx = i] :
        cs \in CountSeqs, i \in 0..MaxIdx }

\* actor_cfg['actors'] with the given counts
MkActors(counts) == [k \in DOMAIN counts |-> [n |-> counts[k]]]

\* lines 79-81: self._compute_v(n1) and self._compute_v(n2)
ComputeV ==
    /\ call.fn = "_compute_v"
    /\ ~ret.done
    /\ ret' = IF ComputeVRaises(call.cfg)
              THEN [NoRet EXCEPT !.done = TRUE, !.raised = "ZeroDivisionError"]
              ELSE [NoRet EXCEPT !.done = TRUE,
                                 !.v1 = _compute_v(call.cfg, call.n1),
                                 !.v2 = _compute_v(call.cfg, call.n2)]
    /\ UNCHANGED <<fleet, actor_cfg, server_cfg, server_weights, main_pc, n_actors_total,
                   gpu_frac, actor_idx, pc, error, actor, pos, ep, call>>

\* lines 114-120: get_actor_info(idx)
GetActorInfo ==
    /\ call.fn = "get_actor_info"
    /\ ~ret.done
    /\ LET k == get_actor_info(MkActors(call.counts), call.idx)
       IN  ret' = [NoRet EXCEPT !.done = TRUE, !.role = k,
                                !.raised = IF k = 0 THEN "Exception" ELSE "none"]
    /\ UNCHANGED <<fleet, actor_cfg, server_cfg, server_weights, main_pc, n_actors_total,
                   gpu_frac, actor_idx, pc, error, actor, pos, ep, call>>

\* Actor configurations for the supervisor: role counts, accelerator count
\* and global fraction.
LaunchCalls ==
    { [NoCall EXCEPT !.fn = "launch", !.counts = cs, !.n_gpus = g, !.gpu_frac = f] :
        cs \in CountSeqs, g \in 0..MaxGpus, f \in { <<1, 2>>, <<1, 1>> } }

\* Trails and cores for line 52: any sequence of literals, any set of them.
MinTrailCalls ==
    { [NoCall EXCEPT !.fn = "min_trail", !.trail = t, !.core = c] :
        t \in UNION { [1..len -> Lits(2)] : len \in 0..MaxFnTrail },
        c \in SUBSET Lits(2) }

\* lines 111-112, 122-125 and 132-135: what the supervisor computes and what
\* launch_actor hands to Actor(...) for every worker index it is started with
\* (workers[idx + 1] is worker idx; role 0 is the raise of get_actor_info).
LaunchAll ==
    /\ call.fn = "launch"
    /\ ~ret.done
    /\ LET acfg  == [actors |-> MkActors(call.counts), n_gpus |-> call.n_gpus,
                     gpu_frac |-> call.gpu_frac]
           total == SumN(acfg.actors)
       IN  ret' = IF total = 0
                  THEN [NoRet EXCEPT !.done = TRUE, !.raised = "ZeroDivisionError"]
                  ELSE [NoRet EXCEPT
                          !.done = TRUE,
                          !.n_actors_total = total,
                          !.workers =
                             [k \in { idx + 1 : idx \in WorkerIndices(total) } |->
                                [gpu_id   |-> GpuId(acfg, k - 1),
                                 gpu_frac |-> GpuFrac(acfg, total),
                                 role     |-> get_actor_info(acfg.actors, k - 1)]]]
    /\ UNCHANGED <<fleet, actor_cfg, server_cfg, server_weights, main_pc, n_actors_total,
                   gpu_frac, actor_idx, pc, error, actor, pos, ep, call>>

\* line 52: min_trail = [lit for lit in trail if lit in core]
ApplyMinTrail ==
    /\ call.fn = "min_trail"
    /\ ~ret.done
    /\ ret' = [NoRet EXCEPT !.done = TRUE, !.min_trail = MinTrail(call.trail, call.core)]
    /\ UNCHANGED <<fleet, actor_cfg, server_cfg, server_weights, main_pc, n_actors_total,
                   gpu_frac, actor_idx, pc, error, actor, pos, ep, call>>

InitFn ==
    /\ actor_cfg = [actors |-> <<>>, n_gpus |-> 0, gpu_frac |-> <<0, 1>>]
    /\ server_cfg = NoActor.cfg
    /\ server_weights = 0
    /\ main_pc = "start"
    /\ n_actors_total = 0
    /\ gpu_frac = <<0, 1>>
    /\ actor_idx = 0
    /\ pc = "unstarted"
    /\ error = "none"
    /\ actor = NoActor
    /\ pos = FirstPos
    /\ ep = NoEpisode
    /\ call \in ComputeCalls \cup InfoCalls \cup LaunchCalls \cup MinTrailCalls
    /\ ret = NoRet
    /\ workers = <<>>
    /\ procs = <<>>
    /\ n_joined = 0
    /\ server_log = <<>>

NextFn ==
    \/ ComputeV
    \/ GetActorInfo
    \/ LaunchAll
    \/ ApplyMinTrail

SpecFn == InitFn /\ [][NextFn]_vars

\* ------------------------------------------------------------------ claims

\* How often the episode's log has the call.
Count(log, name) == Cardinality({ k \in DOMAIN log : log[k].call = name })

Pulls == Count(ep.log, "get_weights")
Pushes == Count(ep.log, "process_actor_episode")
LabelQueries == Count(ep.log, "to_tf_query")

\* The remote calls of the episode all go to the actor's one server.
ToTheServer ==
    \A k \in DOMAIN ep.log :
        ep.log[k].call \in {"get_weights", "process_actor_episode"}
            => ep.log[k].on = actor.server /\ actor.server = "server"

\* The episode has ended with a report / with the return on None.
Reported == ep.returned /\ ep.result.present
Absent == ep.returned /\ ~ep.result.present

\* C1, as stated: every episode, whatever the search's outcome, makes exactly
\* one parameter pull and exactly one report push, both to the actor's server.
C1_OnePullOnePushAlways ==
    ep.returned => Pulls = 1 /\ Pushes = 1 /\ ToTheServer

\* C1, amended: every episode makes exactly one parameter pull; it makes
\* exactly one report push when the search's outcome is present and none when
\* it is absent (and none before it ends); all go to the actor's server.
C1_OnePullAndOnePushIfPresent ==
    ep.log # <<>> =>
        /\ Pulls = 1
        /\ ToTheServer
        /\ Pushes = Len(ep.reports)
        /\ Pushes = IF Reported THEN 1 ELSE 0

C1_Witness == Reported /\ Pulls = 1 /\ Pushes = 1

\* C2: after an absent outcome (None) the episode has no training example,
\* no labeling query and no report, no error was raised, and the loop is at
\* the next triple.
C2_AbsentOutcomeSkipsReport ==
    Absent =>
        /\ ep.datapoints = <<>>
        /\ LabelQueries = 0 /\ ep.queries = <<>>
        /\ Pushes = 0 /\ ep.reports = <<>>
        /\ error = "none"
        /\ pc = "get_weights"
        /\ pos = NextPos(actor, ep.triple)

C2_Witness == Absent /\ actor.train /\ pos # ep.triple

\* The first index (0-based) whose query had no free variable, or the length
\* of min_trail if there is none.
FirstStop(queries, n) ==
    IF \E k \in DOMAIN queries : queries[k]
    THEN (CHOOSE k \in DOMAIN queries :
            queries[k] /\ \A j \in 1..(k - 1) : ~queries[j]) - 1
    ELSE n

\* C3: in training mode the report has min(len(min_trail), k) examples, k the
\* first index whose query has no free variable: never more than
\* len(min_trail); the indices are queried in order, each at most once, and
\* none after the one that stops the generation.
C3_ExamplesUpToFirstStop ==
    (actor.train /\ ep.result.present) =>
        /\ Len(ep.datapoints) <= Len(ep.min_trail)
        /\ Len(ep.queries) <= Len(ep.min_trail)
        /\ LabelQueries = Len(ep.queries)
        /\ \A k \in DOMAIN ep.log :
              ep.log[k].call = "to_tf_query" =>
                  ep.log[k].arg = Count(SubSeq(ep.log, 1, k), "to_tf_query") - 1
        /\ \A k \in 1..(Len(ep.queries) - 1) : ~ep.queries[k]
        /\ pc # "crashed" =>
              Len(ep.datapoints) = Len(ep.queries)
                                   - (IF \E k \in DOMAIN ep.queries : ep.queries[k] THEN 1 ELSE 0)
        /\ Reported =>
              /\ Len(ep.reports[1].datapoints)
                    = Min(Len(ep.min_trail), FirstStop(ep.queries, Len(ep.min_trail)))
              /\ Len(ep.queries)
                    = Min(Len(ep.min_trail), FirstStop(ep.queries, Len(ep.min_trail)) + 1)

C3_Witness ==
    /\ Reported /\ actor.train
    /\ Len(ep.min_trail) = 2
    /\ ep.queries = <<FALSE, TRUE>>
    /\ Len(ep.reports[1].datapoints) = 1

\* The preconditions of C4 and C5 on the reward-shaping constants.
Decaying(cfg) ==
    /\ cfg.v_reward > 0
    /\ cfg.v_reward_decay_steps > 0
    /\ 0 < cfg.v_reward_decay[1] /\ cfg.v_reward_decay[1] < cfg.v_reward_decay[2]

CarryCounts(dps) ==
    \A j \in DOMAIN dps :
        /\ dps[j].n_vars = actor.sps[ep.triple.s].n_vars
        /\ dps[j].n_clauses = actor.sps[ep.triple.s].n_clauses

\* C4, as stated: with reward_base > 0, decay_scale > 0 and 0 < decay_rate < 1
\* the target values of an episode's examples strictly decrease with the
\* example index, and every example carries the instance's counts.
C4_TargetsDecrease ==
    (actor.train /\ Decaying(actor.cfg)) =>
        /\ \A j \in 1..(Len(ep.datapoints) - 1) :
              VLess(ep.datapoints[j + 1].target_v, ep.datapoints[j].target_v)
        /\ CarryCounts(ep.datapoints)

\* C4, amended: under the same preconditions the target values strictly
\* increase with the example index (example j+1 always has a larger target_v
\* than example j), and every example carries the instance's counts.
C4_TargetsIncrease ==
    (actor.train /\ Decaying(actor.cfg)) =>
        /\ \A j \in 1..(Len(ep.datapoints) - 1) :
              VLess(ep.datapoints[j].target_v, ep.datapoints[j + 1].target_v)
        /\ CarryCounts(ep.datapoints)
        /\ \A k \in DOMAIN ep.reports :
              /\ \A j \in 1..(Len(ep.reports[k].datapoints) - 1) :
                    VLess(ep.reports[k].datapoints[j].target_v,
                          ep.reports[k].datapoints[j + 1].target_v)
              /\ CarryCounts(ep.reports[k].datapoints)

C4_Witness ==
    /\ Reported /\ actor.train /\ Decaying(actor.cfg)
    /\ Len(ep.reports[1].datapoints) = 2
    /\ ep.reports[1].datapoints[1].n_vars = 3
    /\ ep.reports[1].datapoints[1].n_clauses = 2

\* C5: with v_reward > 0, v_reward_decay_steps > 0 and 0 < v_reward_decay < 1,
\* _compute_v(n1) > _compute_v(n2) for all n1 < n2, and _compute_v(0) is
\* v_reward (v^d = v_reward^d in the model's exact representation).
C5_ComputeVStrictlyDecreasing ==
    (call.fn = "_compute_v" /\ ret.done /\ Decaying(call.cfg)) =>
        /\ ret.raised = "none"
        /\ call.n1 < call.n2 => VLess(ret.v2, ret.v1)
        /\ call.n1 = 0 =>
              ret.v1.num = Pow(call.cfg.v_reward, call.cfg.v_reward_decay_steps) * ret.v1.den

C5_Witness ==
    /\ call.fn = "_compute_v" /\ ret.done /\ Decaying(call.cfg)
    /\ call.cfg.v_reward_decay_steps = 2
    /\ call.n1 = 0 /\ call.n2 = 1
    /\ VLess(ret.v2, ret.v1)

RECURSIVE PrefixSum(_, _)
\* counts[1] + ... + counts[k]
PrefixSum(counts, k) == IF k = 0 THEN 0 ELSE counts[k] + PrefixSum(counts, k - 1)

\* C6: for non-negative role counts get_actor_info(idx) returns the first
\* role in declared order whose cumulative count exceeds idx, the role k with
\* sum(counts[0..k-1]) <= idx < sum(counts[0..k]), and raises when idx is at
\* least the total count; counts [3,2,5] give 0..2 -> role 0, 3..4 -> role 1,
\* 5..9 -> role 2, 10 -> error (roles are numbered from 1 here, 0 the raise).
C6_RoleBuckets ==
    (call.fn = "get_actor_info" /\ ret.done) =>
        LET cs == call.counts
            idx == call.idx
        IN  /\ IF idx >= PrefixSum(cs, Len(cs))
               THEN ret.role = 0 /\ ret.raised = "Exception"
               ELSE /\ ret.raised = "none"
                    /\ ret.role \in 1..Len(cs)
                    /\ PrefixSum(cs, ret.role - 1) <= idx
                    /\ idx < PrefixSum(cs, ret.role)
                    /\ \A j \in 1..(ret.role - 1) : ~(idx < PrefixSum(cs, j))
            /\ cs = <<3, 2, 5>> =>
                  ret.role = IF idx <= 2 THEN 1
                             ELSE IF idx <= 4 THEN 2
                             ELSE IF idx <= 9 THEN 3
                             ELSE 0

C6_Witness ==
    /\ call.fn = "get_actor_info" /\ ret.done
    /\ call.counts = <<3, 2, 5>> /\ call.idx = 4
    /\ ret.role = 2

\* The position of a triple in the nested enumeration: instances outermost,
\* branchers in the middle, cubers innermost (0 for the first triple).
EnumRank(a, t) ==
    ((t.s - 1) * Len(a.branchers) + (t.b - 1)) * Len(a.cubers) + (t.c - 1)

NumTriples(a) == Len(a.sps) * Len(a.branchers) * Len(a.cubers)

\* A step that starts an episode (enters play_episode).
StartsEpisode == pc = "get_weights" /\ pc' = "play_asat"

\* C7: the first episode is for the first triple and every later episode is
\* for the triple that follows the previous episode's triple in the nested
\* enumeration (instances, then branchers, then cubers), the first triple
\* following the last; this holds whatever the previous episode's outcome
\* was, and an episode's triple changes only when an episode starts.
C7_EnumerationOrder ==
    [][ /\ StartsEpisode =>
              /\ ep'.triple.s \in 1..Len(actor.sps)
              /\ ep'.triple.b \in 1..Len(actor.branchers)
              /\ ep'.triple.c \in 1..Len(actor.cubers)
              /\ EnumRank(actor, ep'.triple)
                    = IF ep.log = <<>> THEN 0
                      ELSE (EnumRank(actor, ep.triple) + 1) % NumTriples(actor)
        /\ ep'.triple # ep.triple => StartsEpisode ]_vars

\* The last triple's episode has ended with an absent outcome and the loop
\* is back at the first triple.
C7_Witness ==
    /\ Absent /\ pc = "get_weights"
    /\ Len(actor.sps) > 1 /\ Len(actor.branchers) > 1 /\ Len(actor.cubers) > 1
    /\ ep.triple = [s |-> Len(actor.sps), b |-> Len(actor.branchers), c |-> Len(actor.cubers)]
    /\ pos = [s |-> 1, b |-> 1, c |-> 1]

\* The places of the calls in the episode's log.
Places(name) == { k \in DOMAIN ep.log : ep.log[k].call = name }

\* C8: in every episode the pull comes first and the pulled parameters are
\* loaded into the inference connection before the search starts; the search
\* runs on exactly the parameters pulled in this episode (never on the ones
\* the connection held before, when the pull brought different ones);
\* labeling queries come after the search and the push comes last.  The
\* pull takes the server's current parameters.
C8_PullLoadSearchGeneratePush ==
    /\ [] ( ep.log # <<>> =>
              /\ Len(ep.log) >= 2
              /\ ep.log[1] = Call(actor.server, "get_weights", ep.pulled)
              /\ ep.log[2] = Call("neuroquery", "set_weights", ep.pulled)
              /\ pc = "play_asat" => actor.weights = ep.pulled
              /\ \A k \in Places("play_asat") :
                    /\ k > 2
                    /\ ep.log[k].arg = ep.pulled
                    /\ ep.search_weights = ep.pulled
                    /\ ep.old_weights # ep.pulled => ep.log[k].arg # ep.old_weights
              /\ Cardinality(Places("play_asat")) <= 1
              /\ \A k \in Places("to_tf_query") :
                    \E j \in Places("play_asat") : j < k
              /\ \A k \in Places("process_actor_episode") :
                    /\ k = Len(ep.log)
                    /\ \E j \in Places("play_asat") : j < k )
    /\ [][ StartsEpisode =>
              /\ ep'.pulled = server_weights
              /\ ep'.old_weights = actor.weights ]_vars

\* An episode searched on parameters pulled in it, which differ from those
\* of the episode before, and has sent its report.
C8_Witness ==
    /\ Reported
    /\ ep.old_weights = 0 /\ ep.pulled = 1 /\ ep.search_weights = 1
    /\ ep.triple # [s |-> 1, b |-> 1, c |-> 1]
    /\ ep.queries # <<>>

\* C9, as stated: every episode whose outcome is present and that has ended
\* (by the return of play_episode or by an exception) has sent exactly one
\* report, with the instance id, the cuber name and the brancher name of the
\* triple played and the estimate of this episode's search; not in training
\* mode the example list is empty and no labeling query is made.
C9_PresentOutcomeReported ==
    (ep.result.present /\ (ep.returned \/ pc = "crashed")) =>
        /\ Len(ep.reports) = 1 /\ Pushes = 1
        /\ ep.reports[1].dimacs = actor.sps[ep.triple.s].dimacs
        /\ ep.reports[1].cuber = actor.cubers[ep.triple.c]
        /\ ep.reports[1].brancher = actor.branchers[ep.triple.b]
        /\ ep.reports[1].estimate = ep.result.estimate
        /\ ep.reports[1].datapoints = ep.datapoints
        /\ ~actor.train => ep.reports[1].datapoints = <<>> /\ LabelQueries = 0

\* The configuration errors of C10, as far as the run has met them.
ConfigError ==
    \/ main_pc # "start" /\ n_actors_total = 0
    \/ pc \notin {"unstarted"} /\ get_actor_info(actor_cfg.actors, actor_idx) = 0
    \/ pc \notin {"unstarted", "launch_actor"} /\ actor.cfg.v_reward_decay_steps <= 0

\* C10, as stated: with a configuration error the actor or the supervisor
\* aborts before any episode runs: no parameter pull and no search is ever
\* made, and whatever exception ends a process comes before the first pull.
C10_ConfigErrorFatalAtStartup ==
    /\ ConfigError => ep.log = <<>>
    /\ error # "none" => ep.log = <<>>

\* How often the sequence has the element.
Occurrences(q, x) == Cardinality({ k \in DOMAIN q : q[k] = x })

\* r is a subsequence of t: r's elements are elements of t at increasing places.
IsSubsequence(r, t) ==
    \E f \in [DOMAIN r -> DOMAIN t] :
        /\ \A a, b \in DOMAIN r : a < b => f[a] < f[b]
        /\ \A k \in DOMAIN r : r[k] = t[f[k]]

\* C14: for every trail T and core C with C a subset of T's literals,
\* min_trail has exactly the trail's literals that are in the core (each as
\* often as the trail has it), in the trail's order, and is no longer than T.
C14_MinTrailIsOrderedFilter ==
    (call.fn = "min_trail" /\ ret.done /\ call.core \subseteq Range(call.trail)) =>
        /\ Len(ret.min_trail) <= Len(call.trail)
        /\ IsSubsequence(ret.min_trail, call.trail)
        /\ Range(ret.min_trail) = call.core
        /\ \A l \in Lits(2) :
              Occurrences(ret.min_trail, l)
                 = IF l \in call.core THEN Occurrences(call.trail, l) ELSE 0

C14_Witness ==
    /\ call.fn = "min_trail" /\ ret.done
    /\ call.trail = <<2, -1, 1>> /\ call.core = {2, 1}
    /\ ret.min_trail = <<2, 1>>

\* The supervisor has computed its launch parameters without an exception.
Launched == call.fn = "launch" /\ ret.done /\ ret.raised = "none"

\* C15: every launched worker idx gets the accelerator idx mod n_gpus (a
\* number in 0..n_gpus-1), or 0 when n_gpus is 0, and every worker gets the
\* same share gpu_frac * n_gpus / n_actors_total, whatever its index and
\* role; gpu_frac 1/2 with 4 accelerators and 8 actors gives 1/4.
C15_AcceleratorAndShare ==
    Launched =>
        /\ DOMAIN ret.workers = 1..PrefixSum(call.counts, Len(call.counts))
        /\ \A k \in DOMAIN ret.workers :
              LET w == ret.workers[k]
                  idx == k - 1
              IN  /\ IF call.n_gpus = 0 THEN w.gpu_id = 0
                     ELSE /\ w.gpu_id \in 0..(call.n_gpus - 1)
                          /\ \E q \in 0..idx : idx = q * call.n_gpus + w.gpu_id
                  /\ w.gpu_frac[2] # 0
                  /\ w.gpu_frac[1] * (call.gpu_frac[2] * ret.n_actors_total)
                        = (call.gpu_frac[1] * call.n_gpus) * w.gpu_frac[2]
                  /\ w.gpu_frac = ret.workers[1].gpu_frac
                  /\ (call.gpu_frac = <<1, 2>> /\ call.n_gpus = 4 /\ ret.n_actors_total = 8)
                        => w.gpu_frac[1] * 4 = w.gpu_frac[2]

C15_Witness ==
    /\ Launched
    /\ call.gpu_frac = <<1, 2>> /\ call.n_gpus = 4 /\ ret.n_actors_total = 8
    /\ Len(call.counts) = 3
    /\ ret.workers[6].gpu_id = 1
    /\ ret.workers[6].gpu_frac[1] * 4 = ret.workers[6].gpu_frac[2]

\* C19, as stated: with n_gpus > 0 and actors to launch, the workers bound to
\* any one accelerator g number at most n_actors_total / n_gpus, so that
\* their shares add up to at most the configured global fraction.
C19_NoAcceleratorOverSubscribed ==
    (Launched /\ call.n_gpus > 0 /\ ret.n_actors_total > 0) =>
        \A g \in 0..(call.n_gpus - 1) :
            Cardinality({ k \in DOMAIN ret.workers : ret.workers[k].gpu_id = g }) * call.n_gpus
                <= ret.n_actors_total

\* C20: for non-negative role counts the launched workers are the indices
\* 0..N-1, N the sum of the counts; each role r is the role of exactly
\* counts[r] of them (none for a count of 0) and get_actor_info raises for
\* none of them.  With N = 0 the supervisor launches no worker.
C20_RolesRealiseCounts ==
    (call.fn = "launch" /\ ret.done) =>
        /\ DOMAIN ret.workers = 1..PrefixSum(call.counts, Len(call.counts))
        /\ \A k \in DOMAIN ret.workers : ret.workers[k].role \in 1..Len(call.counts)
        /\ \A r \in 1..Len(call.counts) :
              Cardinality({ k \in DOMAIN ret.workers : ret.workers[k].role = r })
                 = call.counts[r]

C20_Witness ==
    /\ Launched
    /\ call.counts = <<2, 0, 3>>
    /\ Len(ret.workers) = 5
    /\ ret.workers[3].role = 3

\* The solvers of the episode that got a call of the given name.
SolversOf(name) == { ep.log[k].on : k \in Places(name) }

\* C16, as stated: every labeling query of an episode goes to a solver of its
\* own, built for it just before: no solver gets more than one labeling
\* query, and the search's solver gets none.
C16_FreshSolverPerQuery ==
    /\ \A k, j \in Places("to_tf_query") : k # j => ep.log[k].on # ep.log[j].on
    /\ \A k \in Places("to_tf_query") :
          /\ ep.log[k - 1] = Call(ep.log[k].on, "_fresh_solver", 0)
          /\ ep.log[k].on \notin SolversOf("play_asat")

\* C16, amended: in training mode one fresh solver is built per episode for
\* sample generation, after the search and before the loop; every labeling
\* query of the episode, with its assumption prefix min_trail[0:i], goes to
\* that one solver, and the solver used by the search is never queried for
\* labels.
C16_OneLabelSolverPerEpisode ==
    /\ Cardinality(SolversOf("to_tf_query")) <= 1
    /\ SolversOf("to_tf_query") \cap SolversOf("play_asat") = {}
    /\ Count(ep.log, "_fresh_solver") <= 2
    /\ \A k \in Places("to_tf_query") :
          \E j \in Places("_fresh_solver") :
              /\ j < k
              /\ ep.log[j].on = ep.log[k].on
              /\ \E h \in Places("play_asat") : h < j
    /\ \A k \in Places("play_asat") :
          ep.log[k - 1] = Call(ep.log[k].on, "_fresh_solver", 0)

C16_Witness ==
    /\ Reported
    /\ Len(ep.queries) = 2
    /\ Cardinality(SolversOf("to_tf_query")) = 1
    /\ Count(ep.log, "_fresh_solver") = 2

\* The examples dps are the ones of the episode's min_trail.
ExamplesOfMinTrail(dps) ==
    \A j \in DOMAIN dps :
        LET n == Len(ep.min_trail) - (j - 1)
        IN  /\ j <= Len(ep.min_trail)
            /\ dps[j].LC_idxs = SubSeq(ep.min_trail, 1, j - 1)
            /\ \E k \in Places("to_tf_query") : ep.log[k].arg = j - 1
            /\ dps[j].target_var \in 1..actor.sps[ep.triple.s].n_vars
            /\ ep.min_trail[j] \in { dps[j].target_var, -dps[j].target_var }
            /\ n \in 1..Len(ep.min_trail)
            /\ j > 1 => n < Len(ep.min_trail) - (j - 2)
            /\ dps[j].target_v = _compute_v(actor.cfg, n)
            /\ Decaying(actor.cfg) =>
                  dps[j].target_v.num
                     # Pow(actor.cfg.v_reward, actor.cfg.v_reward_decay_steps) * dps[j].target_v.den

\* C18: in training mode the example at position j (0-based) comes from the
\* query with the assumption prefix min_trail[0:j], has the variable of
\* min_trail[j] as target variable and a target value computed with
\* n_steps_left = len(min_trail) - j, which decreases along the list, lies in
\* 1..len(min_trail) and is never 0: with 0 < decay < 1 no example has the
\* value v_reward itself.
C18_ExamplesFollowMinTrail ==
    (actor.train /\ ep.result.present) =>
        /\ ExamplesOfMinTrail(ep.datapoints)
        /\ \A k \in DOMAIN ep.reports : ExamplesOfMinTrail(ep.reports[k].datapoints)

C18_Witness ==
    /\ Reported /\ actor.train /\ Decaying(actor.cfg)
    /\ Len(ep.reports[1].datapoints) = 2
    /\ ep.min_trail[2] < 0
    /\ ep.reports[1].datapoints[2].target_var = -ep.min_trail[2]

RemoteCalls == {"get_config", "get_weights", "process_actor_episode"}

\* C11: a failed remote call (get_config, get_weights, process_actor_episode)
\* ends the actor: the call is not made again, the actor starts no further
\* episode and makes no further call, and the server has no report of the
\* episode unless the push itself had gone out.
C11_RemoteFailureEndsActor ==
    /\ [](error = "RemoteError" =>
            /\ pc = "crashed"
            /\ ep.log # <<>>
            /\ ep.log[Len(ep.log)].call \in RemoteCalls
            /\ Count(ep.log, ep.log[Len(ep.log)].call) = 1
            /\ ~ep.returned
            /\ Len(ep.reports) <= 1
            /\ ep.reports # <<>> => ep.log[Len(ep.log)].call = "process_actor_episode")
    /\ [][error = "RemoteError" => UNCHANGED <<pc, error, ep, pos, actor>>]_vars

C11_Witness ==
    /\ error = "RemoteError"
    /\ pc = "crashed"
    /\ ep.log[Len(ep.log)].call = "process_actor_episode"
    /\ ep.reports = <<>>
    /\ ep.triple # FirstPos
    /\ Len(ep.datapoints) = 2

\* C17, as stated: an actor whose corpus and policy lists are non-empty, and
\* whose searches and remote calls all return, has no terminal state: once
\* its loop runs it is always at a step of some episode, never out of the
\* loop, and so it plays every triple again and again.
C17_LoopNeverExits ==
    (pc \notin {"unstarted", "launch_actor"} /\ HasTriple(actor)) =>
        /\ pc \in {"get_weights", "play_asat", "to_tf_query", "process_actor_episode"}
        /\ error = "none"

\* The reports the server has received from worker w, as places of its log.
ReportsOf(w) == { k \in DOMAIN server_log : server_log[k].idx = w }

\* C12: every actor of the fleet has at most one episode in progress: it
\* pulls for its next episode only when its current one has ended (with the
\* push answered, or with the return on an absent outcome) and while its
\* report is on the way it waits; the server's reports from one actor are in
\* the actor's enumeration order, whatever the interleaving with the others;
\* and a step of one actor changes nothing of another actor.
C12_OneEpisodePerActor ==
    /\ [](\A w \in WorkerSlots :
            /\ workers[w].flight # "none" =>
                  /\ workers[w].pc \in {"push_wait", "killed"}
                  /\ ~workers[w].ended
            /\ \A k \in ReportsOf(w) :
                  /\ EnumRank(workers[w].actor, server_log[k].triple)
                        = (server_log[k].n - 1) % NumTriples(workers[w].actor)
                  /\ \A j \in ReportsOf(w) : j < k => server_log[j].n < server_log[k].n)
    /\ [][\A w \in WorkerSlots :
            /\ workers'[w].n # workers[w].n =>
                  /\ workers'[w].n = workers[w].n + 1
                  /\ workers[w].flight = "none"
                  /\ workers[w].n = 0 \/ workers[w].ended
            /\ workers'[w] # workers[w] =>
                  \A v \in WorkerSlots \ {w} : workers'[v] = workers[v]]_vars

C12_Witness ==
    /\ Len(server_log) >= 3
    /\ server_log[1].idx = 1
    /\ server_log[2].idx = 0
    /\ server_log[3].idx = 1
    /\ server_log[3].n = 2
    /\ workers[0].pc = "play_asat"
    /\ workers[0].n = 2
    /\ workers[0].actor.weights # workers[1].actor.weights

\* The state of a worker process itself: its record without the state of the
\* report it has sent (which the server may take after the process's end).
ProcessState(rec) == [rec EXCEPT !.flight = "none"]

\* C13: the supervisor starts one worker for each index 0..N-1, in this
\* order and each once, waits only when all are started and ends only when
\* all have terminated; a terminated worker is never started again, and its
\* termination changes neither the supervisor nor any other worker.
C13_SupervisorStartsAllThenWaits ==
    /\ [](/\ \A k \in DOMAIN procs : procs[k] = k - 1
          /\ Len(procs) <= SumN(actor_cfg.actors)
          /\ \A w \in WorkerSlots : workers[w].pc # "unstarted" <=> w \in Range(procs)
          /\ main_pc \in {"joining", "done"} => Len(procs) = SumN(actor_cfg.actors)
          /\ n_joined > 0 => main_pc \in {"joining", "done"}
          /\ main_pc = "done" =>
                \A w \in 0..(SumN(actor_cfg.actors) - 1) :
                    workers[w].pc \in {"crashed", "killed"})
    /\ [][/\ \A w \in WorkerSlots :
               workers[w].pc \in {"crashed", "killed"} =>
                   /\ ProcessState(workers'[w]) = ProcessState(workers[w])
                   /\ Len(procs') = Len(procs) \/ procs'[Len(procs')] # w
          /\ \A w \in WorkerSlots :
               (workers[w].pc \notin {"crashed", "killed"}
                  /\ workers'[w].pc \in {"crashed", "killed"}) =>
                   /\ main_pc' = main_pc /\ procs' = procs /\ n_joined' = n_joined
                   /\ \A v \in WorkerSlots \ {w} : workers'[v] = workers[v]
          /\ procs' # procs =>
               /\ main_pc = "launching"
               /\ \E idx \in WorkerSlots :
                    procs' = Append(procs, idx) /\ workers[idx].pc = "unstarted"]_vars

\* Worker 0 died in its first episode and was joined; worker 1 has since
\* played two episodes and the supervisor waits for it.
C13_Witness ==
    /\ main_pc = "joining"
    /\ n_joined = 1
    /\ procs = <<0, 1>>
    /\ workers[0].pc = "crashed"
    /\ workers[0].n = 1
    /\ workers[1].pc = "get_weights"
    /\ workers[1].n = 2
    /\ Cardinality(ReportsOf(1)) = 2

====
